---- MODULE Spec2Model ----
(***************************************************************************)
(* Model of heredity.py: exact inference by enumeration over a family      *)
(* tree.  main enumerates every evidence-consistent (one_gene, two_genes,  *)
(* have_trait) configuration, joint_probability evaluates it, update       *)
(* accumulates it per person, normalize rescales the result.               *)
(*                                                                         *)
(* Arithmetic.  The program's numbers are finite decimals; the model keeps *)
(* them exactly, as fixed-point naturals of arbitrary size (little-endian  *)
(* sequences of base-1000 limbs, zero being the empty sequence).  A gene   *)
(* probability is kept in units of 1/10000, a trait probability in units   *)
(* of 1/100, so a person's factor is in units of 10^-6 and a joint         *)
(* probability over n people in units of 10^-(6n).  After normalize a      *)
(* bucket holds the quotient bucket/total as the pair [num, den].          *)
(* Rounding of binary floating point is not modelled.                      *)
(***************************************************************************)
EXTENDS Integers, Sequences, FiniteSets, TLC

\* Largest population drawn by Init.
MaxPeople == 3

VARIABLES people, order, probabilities, pc, ti, oi, wi, called, ncalls, total

vars == <<people, order, probabilities, pc, ti, oi, wi, called, ncalls, total>>

-----------------------------------------------------------------------------
(* Exact naturals *)

Base == 1000

Big(n) == IF n = 0 THEN <<>>
          ELSE IF n < Base THEN <<n>>
          ELSE IF n < Base * Base THEN <<n % Base, n \div Base>>
          ELSE <<n % Base, (n \div Base) % Base, n \div (Base * Base)>>

RECURSIVE BAddC(_, _, _)
BAddC(a, b, c) ==
    IF a = <<>> /\ b = <<>>
    THEN IF c = 0 THEN <<>> ELSE <<c>>
    ELSE LET x == (IF a = <<>> THEN 0 ELSE Head(a))
                  + (IF b = <<>> THEN 0 ELSE Head(b)) + c
         IN <<x % Base>> \o BAddC(IF a = <<>> THEN <<>> ELSE Tail(a),
                                  IF b = <<>> THEN <<>> ELSE Tail(b),
                                  x \div Base)

BAdd(a, b) == BAddC(a, b, 0)

RECURSIVE BMulC(_, _, _)
BMulC(a, k, c) ==
    IF a = <<>>
    THEN IF c = 0 THEN <<>> ELSE <<c % Base>> \o BMulC(<<>>, k, c \div Base)
    ELSE LET x == Head(a) * k + c
         IN <<x % Base>> \o BMulC(Tail(a), k, x \div Base)

\* a times the small natural k (k < 10^6)
BMulSmall(a, k) == IF k = 0 THEN <<>> ELSE BMulC(a, k, 0)

-----------------------------------------------------------------------------
(* PROBS *)

\* PROBS["gene"], in units of 1/10000
PROBS_gene == [g \in 0..2 |-> CASE g = 2 -> 100 [] g = 1 -> 300 [] g = 0 -> 9600]

\* PROBS["trait"], in units of 1/100
PROBS_trait ==
    [g \in 0..2 |->
        CASE g = 2 -> [t \in BOOLEAN |-> IF t THEN 65 ELSE 35]
          [] g = 1 -> [t \in BOOLEAN |-> IF t THEN 56 ELSE 44]
          [] g = 0 -> [t \in BOOLEAN |-> IF t THEN 1 ELSE 99]]

\* PROBS["mutation"], in units of 1/100
MUTATION == 1

\* 1.0 in units of 1/100
One == 100

-----------------------------------------------------------------------------
(* The population *)

names == DOMAIN people

Traits == {"True", "False", "None"}

ParentChoices(n, k) ==
    {<<0, 0>>} \cup {<<m, f>> \in (1..n) \X (1..n) : m # f /\ m # k /\ f # k}

Parents(f, k) == {f[k].mother, f[k].father} \ {0}

RECURSIVE Ancestors(_, _, _)
Ancestors(f, S, i) ==
    IF i = 0 THEN S
    ELSE Ancestors(f, S \cup UNION {Parents(f, x) : x \in S}, i - 1)

Acyclic(f) ==
    \A k \in DOMAIN f : k \notin Ancestors(f, Parents(f, k), Cardinality(DOMAIN f))

ParentMaps(n) ==
    {pm \in [1..n -> (0..n) \X (0..n)] :
        \A k \in 1..n : pm[k] \in ParentChoices(n, k)}

\* What load_data can return for a well-formed file of n rows: both parents
\* blank or both names of other rows, trait "1", "0" or blank.  Rows are
\* numbered in file order, which is the iteration order of the dict.
Populations(n) ==
    {f \in {[k \in 1..n |-> [mother |-> pm[k][1], father |-> pm[k][2],
                             trait |-> tr[k]]] :
              pm \in ParentMaps(n), tr \in [1..n -> Traits]} :
        Acyclic(f)}

\* Iteration order of the dict people
Keys(ppl) == [i \in 1..Cardinality(DOMAIN ppl) |-> i]

Perms(S) ==
    {s \in [1..Cardinality(S) -> S] : \A i, j \in DOMAIN s : i # j => s[i] # s[j]}

\* list(s) of a set s of names.  The iteration order of a set of strings is
\* fixed within a run and differs between runs (string hashing): Init draws
\* it as the sequence order, and every set of the run lists its members in
\* that order.
ListOf(S) == SelectSeq(order, LAMBDA x : x \in S)

-----------------------------------------------------------------------------
(* powerset *)

RECURSIVE combinations(_, _)
combinations(s, r) ==
    IF r = 0 THEN <<{}>>
    ELSE IF Len(s) < r THEN <<>>
    ELSE LET with == combinations(Tail(s), r - 1)
         IN [i \in 1..Len(with) |-> {Head(s)} \cup with[i]]
            \o combinations(Tail(s), r)

RECURSIVE chain(_, _)
chain(s, r) == IF r > Len(s) THEN <<>> ELSE combinations(s, r) \o chain(s, r + 1)

\* powerset with range(len(s)) for range(len(s) + 1): the full set is lost
powerset_short(s) == SubSeq(chain(s, 0), 1, Len(chain(s, 0)) - 1)

powerset(s) == chain(s, 0)

-----------------------------------------------------------------------------
(* joint_probability *)

\* pass_prob where a parent without the gene never passes it
pass_prob_zero(gene_count) ==
    IF gene_count = 0 THEN 0
    ELSE IF gene_count = 1 THEN 50
    ELSE One - MUTATION

pass_prob(gene_count) ==
    IF gene_count = 0 THEN MUTATION
    ELSE IF gene_count = 1 THEN 50
    ELSE One - MUTATION

\* joint_probes[key]["gene"]
gene_of(key, one_gene, two_genes) ==
    IF key \in one_gene THEN 1 ELSE IF key \in two_genes THEN 2 ELSE 0

\* child_gene whose one-copy case counts the copy from the mother only
child_gene_mother_only(gene, mom_pass, dad_pass) ==
    IF gene = 0 THEN (One - mom_pass) * (One - dad_pass)
    ELSE IF gene = 1 THEN mom_pass * (One - dad_pass)
    ELSE mom_pass * dad_pass

\* P(gene | parents' genes) of a person with parents, in units of 1/10000
child_gene(gene, mom_pass, dad_pass) ==
    IF gene = 0 THEN (One - mom_pass) * (One - dad_pass)
    ELSE IF gene = 1 THEN mom_pass * (One - dad_pass) + (One - mom_pass) * dad_pass
    ELSE mom_pass * dad_pass

\* p_gene of person key when it has `gene` copies, in units of 1/10000
p_gene(ppl, key, gene, one_gene, two_genes) ==
    IF ppl[key].mother = 0 /\ ppl[key].father = 0
    THEN PROBS_gene[gene]
    ELSE child_gene(gene,
                    pass_prob(gene_of(ppl[key].mother, one_gene, two_genes)),
                    pass_prob(gene_of(ppl[key].father, one_gene, two_genes)))

\* person_p that reads PROBS["trait"][gene][True] whatever the person's trait
person_p_trait_true(ppl, key, one_gene, two_genes, have_trait) ==
    LET gene == gene_of(key, one_gene, two_genes)
    IN p_gene(ppl, key, gene, one_gene, two_genes) * PROBS_trait[gene][TRUE]

\* joint_probes[key]["p"], in units of 10^-6
person_p(ppl, key, one_gene, two_genes, have_trait) ==
    LET gene == gene_of(key, one_gene, two_genes)
    IN p_gene(ppl, key, gene, one_gene, two_genes)
         * PROBS_trait[gene][(key \in have_trait)]

\* The second loop of joint_probability over the keys in the given order
RECURSIVE joint_loop(_, _, _, _, _, _)
joint_loop(ppl, keys, one_gene, two_genes, have_trait, joint_prob) ==
    IF keys = <<>> THEN joint_prob
    ELSE joint_loop(ppl, Tail(keys), one_gene, two_genes, have_trait,
                    BMulSmall(joint_prob,
                              person_p(ppl, Head(keys), one_gene, two_genes,
                                       have_trait)))

\* joint_probability that returns inside the loop, after the first person
joint_probability_first(ppl, one_gene, two_genes, have_trait) ==
    joint_loop(ppl, <<Head(Keys(ppl))>>, one_gene, two_genes, have_trait, Big(1))

joint_probability(ppl, one_gene, two_genes, have_trait) ==
    joint_loop(ppl, Keys(ppl), one_gene, two_genes, have_trait, Big(1))

-----------------------------------------------------------------------------
(* update and normalize *)

\* update with the two trait buckets exchanged
update_swapped(probs, one_gene, two_genes, have_trait, p) ==
    [key \in DOMAIN probs |->
        [gene  |-> [g \in 0..2 |->
                       IF g = gene_of(key, one_gene, two_genes)
                       THEN BAdd(probs[key].gene[g], p)
                       ELSE probs[key].gene[g]],
         trait |-> [t \in BOOLEAN |->
                       IF t # (key \in have_trait)
                       THEN BAdd(probs[key].trait[t], p)
                       ELSE probs[key].trait[t]]]]

\* update without the final else: a person with no copy gets no gene weight
update_noelse(probs, one_gene, two_genes, have_trait, p) ==
    [key \in DOMAIN probs |->
        [gene  |-> [g \in 0..2 |->
                       IF g # 0 /\ g = gene_of(key, one_gene, two_genes)
                       THEN BAdd(probs[key].gene[g], p)
                       ELSE probs[key].gene[g]],
         trait |-> [t \in BOOLEAN |->
                       IF t = (key \in have_trait)
                       THEN BAdd(probs[key].trait[t], p)
                       ELSE probs[key].trait[t]]]]

update(probs, one_gene, two_genes, have_trait, p) ==
    [key \in DOMAIN probs |->
        [gene  |-> [g \in 0..2 |->
                       IF g = gene_of(key, one_gene, two_genes)
                       THEN BAdd(probs[key].gene[g], p)
                       ELSE probs[key].gene[g]],
         trait |-> [t \in BOOLEAN |->
                       IF t = (key \in have_trait)
                       THEN BAdd(probs[key].trait[t], p)
                       ELSE probs[key].trait[t]]]]

gene_count(probs, key) ==
    BAdd(probs[key].gene[0], BAdd(probs[key].gene[1], probs[key].gene[2]))

trait_count(probs, key) == BAdd(probs[key].trait[TRUE], probs[key].trait[FALSE])

\* normalize raises ZeroDivisionError
normalize_fails(probs) ==
    \E key \in DOMAIN probs :
        gene_count(probs, key) = <<>> \/ trait_count(probs, key) = <<>>

\* normalize dividing both distributions by one total taken over both
normalize_shared_total(probs) ==
    [key \in DOMAIN probs |->
        [gene  |-> [g \in 0..2 |->
                       [num |-> probs[key].gene[g],
                        den |-> BAdd(gene_count(probs, key), trait_count(probs, key))]],
         trait |-> [t \in BOOLEAN |->
                       [num |-> probs[key].trait[t],
                        den |-> BAdd(gene_count(probs, key), trait_count(probs, key))]]]]

normalize(probs) ==
    [key \in DOMAIN probs |->
        [gene  |-> [g \in 0..2 |->
                       [num |-> probs[key].gene[g], den |-> gene_count(probs, key)]],
         trait |-> [t \in BOOLEAN |->
                       [num |-> probs[key].trait[t], den |-> trait_count(probs, key)]]]]

-----------------------------------------------------------------------------
(* main *)

Observed(b) == IF b THEN "True" ELSE "False"

\* fails_evidence with all(...) for any(...)
fails_evidence_all(ppl, have_trait) ==
    \A person \in DOMAIN ppl :
        /\ ppl[person].trait # "None"
        /\ ppl[person].trait # Observed(person \in have_trait)

fails_evidence(ppl, have_trait) ==
    \E person \in DOMAIN ppl :
        /\ ppl[person].trait # "None"
        /\ ppl[person].trait # Observed(person \in have_trait)

\* The three loops of main: powerset(names), powerset(names) and
\* powerset(names - one_gene), and the sets the loop variables hold.
trait_sets == powerset(ListOf(names))
have_trait == trait_sets[ti]
one_sets == powerset(ListOf(names))
one_gene == one_sets[oi]
\* two_sets drawn from names, not from names - one_gene
two_sets_overlap(og) == powerset(ListOf(names))
two_sets_of(og) == powerset(ListOf(names \ og))
two_sets == two_sets_of(one_gene)
two_genes == two_sets[wi]

Init ==
    /\ \E n \in 1..MaxPeople : people \in Populations(n)
    /\ order \in Perms(names)
    /\ probabilities =
          [person \in names |->
              [gene |-> [g \in 0..2 |-> <<>>], trait |-> [t \in BOOLEAN |-> <<>>]]]
    /\ pc = "trait"
    /\ ti = 1
    /\ oi = 1
    /\ wi = 1
    /\ called = {}
    /\ ncalls = 0
    /\ total = <<>>

\* A have_trait that violates known information: continue
TraitSkip ==
    /\ pc = "trait"
    /\ ti <= Len(trait_sets)
    /\ fails_evidence(people, have_trait)
    /\ ti' = ti + 1
    /\ UNCHANGED <<people, order, probabilities, pc, oi, wi, called, ncalls, total>>

\* A have_trait consistent with the evidence: enter the gene loops
TraitEnter ==
    /\ pc = "trait"
    /\ ti <= Len(trait_sets)
    /\ ~fails_evidence(people, have_trait)
    /\ pc' = "genes"
    /\ oi' = 1
    /\ wi' = 1
    /\ UNCHANGED <<people, order, probabilities, ti, called, ncalls, total>>

\* One iteration of the innermost loop: joint_probability, then update.
\* called, ncalls and total record the calls of update: the configurations
\* passed, their number, and the sum of the p passed.
Accumulate ==
    /\ pc = "genes"
    /\ LET ht == have_trait
           os == one_sets
           og == os[oi]
           ts == two_sets_of(og)
           tg == ts[wi]
           p == joint_probability(people, og, tg, ht)
       IN /\ probabilities' = update(probabilities, og, tg, ht, p)
          /\ total' = BAdd(total, p)
          /\ called' = called \cup {<<og, tg, ht>>}
          /\ ncalls' = ncalls + 1
          /\ IF wi < Len(ts)
             THEN wi' = wi + 1 /\ UNCHANGED <<oi, ti, pc>>
             ELSE IF oi < Len(os)
             THEN oi' = oi + 1 /\ wi' = 1 /\ UNCHANGED <<ti, pc>>
             ELSE ti' = ti + 1 /\ pc' = "trait" /\ UNCHANGED <<oi, wi>>
    /\ UNCHANGED <<people, order>>

\* The loop over have_trait is exhausted: normalize(probabilities)
Normalize ==
    /\ pc = "trait"
    /\ ti > Len(trait_sets)
    /\ IF normalize_fails(probabilities)
       THEN pc' = "error" /\ UNCHANGED probabilities
       ELSE pc' = "done" /\ probabilities' = normalize(probabilities)
    /\ UNCHANGED <<people, order, ti, oi, wi, called, ncalls, total>>

Next == TraitSkip \/ TraitEnter \/ Accumulate \/ Normalize

Spec == Init /\ [][Next]_vars

-----------------------------------------------------------------------------
(* Vocabulary of the properties *)

NoParents(k) == people[k].mother = 0 /\ people[k].father = 0

Known == {k \in names : people[k].trait # "None"}

\* have_trait agrees with every known trait
Consistent(ht) ==
    \A k \in Known : (k \in ht) <=> (people[k].trait = "True")

\* The configurations main is to accumulate
ValidTriples ==
    {c \in (SUBSET names) \X (SUBSET names) \X (SUBSET names) :
        c[1] \cap c[2] = {} /\ Consistent(c[3])}

RECURSIVE Pow(_, _)
Pow(b, e) == IF e = 0 THEN 1 ELSE b * Pow(b, e - 1)

Descendants(k) ==
    {x \in names : k \in Ancestors(people, Parents(people, x), Cardinality(names))}

\* The enumeration is over and normalize is about to run
AtNormalize == pc = "trait" /\ ti > Len(trait_sets)

\* A family of three in which somebody has parents
Trio == Cardinality(names) = 3 /\ \E k \in names : ~NoParents(k)

\* The sum of F over the set S, in no particular order
RECURSIVE SumOver(_, _)
SumOver(F(_), S) ==
    IF S = {} THEN <<>>
    ELSE LET c == CHOOSE x \in S : TRUE
         IN BAdd(F(c), SumOver(F, S \ {c}))

\* The posterior as a function of the population alone: each bucket is the
\* sum of the joint probabilities of the consistent configurations that
\* fall in it, over the sum of all of them.
Posterior ==
    LET W == [c \in ValidTriples |-> joint_probability(people, c[1], c[2], c[3])]
        \* the sum of W over the valid triples that satisfy In
        Weight(In(_)) ==
            SumOver(LAMBDA ht :
              SumOver(LAMBDA og :
                SumOver(LAMBDA tg :
                          IF In(<<og, tg, ht>>) THEN W[<<og, tg, ht>>] ELSE <<>>,
                        SUBSET (names \ og)),
                SUBSET names),
              {ht \in SUBSET names : Consistent(ht)})
        T == Weight(LAMBDA c : TRUE)
    IN [person \in names |->
          [gene  |-> [g \in 0..2 |->
                        [num |-> Weight(LAMBDA c : gene_of(person, c[1], c[2]) = g),
                         den |-> T]],
           trait |-> [t \in BOOLEAN |->
                        [num |-> Weight(LAMBDA c : (person \in c[3]) = t),
                         den |-> T]]]]

\* The factor of one person as the documentation of joint_probability has it
RefFactor(k, og, tg, ht) ==
    LET g == gene_of(k, og, tg)
        m == pass_prob(gene_of(people[k].mother, og, tg))
        d == pass_prob(gene_of(people[k].father, og, tg))
        pg == IF NoParents(k) THEN PROBS_gene[g]
              ELSE CASE g = 0 -> (One - m) * (One - d)
                     [] g = 1 -> m * (One - d) + (One - m) * d
                     [] g = 2 -> m * d
    IN pg * PROBS_trait[g][(k \in ht)]

RECURSIVE RefProduct(_, _, _, _)
RefProduct(S, og, tg, ht) ==
    IF S = {} THEN Big(1)
    ELSE LET k == CHOOSE x \in S : TRUE
         IN BMulSmall(RefProduct(S \ {k}, og, tg, ht), RefFactor(k, og, tg, ht))

-----------------------------------------------------------------------------
(* Properties *)

\* C1: after the enumeration and normalize, every person's gene distribution
\* over {0,1,2} sums to 1 and every person's trait distribution over
\* {True,False} sums to 1, and normalize does not fail.
C1_SumsToOne ==
    /\ pc # "error"
    /\ pc = "done" =>
         \A k \in names :
            /\ probabilities[k].gene[0].den # <<>>
            /\ probabilities[k].trait[TRUE].den # <<>>
            /\ \A g \in 0..2 : probabilities[k].gene[g].den = probabilities[k].gene[0].den
            /\ \A t \in BOOLEAN : probabilities[k].trait[t].den = probabilities[k].trait[TRUE].den
            /\ BAdd(probabilities[k].gene[0].num,
                    BAdd(probabilities[k].gene[1].num, probabilities[k].gene[2].num))
                 = probabilities[k].gene[0].den
            /\ BAdd(probabilities[k].trait[TRUE].num, probabilities[k].trait[FALSE].num)
                 = probabilities[k].trait[TRUE].den

C1_Witness == pc = "done" /\ Trio /\ Known # {} /\ Known # names

\* C2: every configuration for which joint_probability and update are called
\* agrees with the evidence: a person whose trait is known is in have_trait
\* exactly when the known trait is True.
C2_EvidenceConsistent ==
    /\ pc = "genes" => Consistent(have_trait)
    /\ \A c \in called : Consistent(c[3])

C2_Witness == pc = "genes" /\ ncalls > 0 /\ Trio /\ Known # {} /\ Known # names

\* C3: update is called exactly once for each triple of disjoint one_gene,
\* two_genes and evidence-consistent have_trait, for no other triple, and so
\* 3^n * 2^(n-k) times for n people of whom k have a known trait.
C3_ExactlyOnce ==
    /\ ncalls = Cardinality(called)
    /\ pc = "genes" => one_gene \cap two_genes = {}
    /\ (AtNormalize \/ pc = "done") =>
          /\ called = ValidTriples
          /\ ncalls = Pow(3, Cardinality(names))
                        * Pow(2, Cardinality(names) - Cardinality(Known))

C3_Witness == pc = "done" /\ Trio /\ Cardinality(Known) = 1 /\ ncalls = 108

\* C4 as stated: a person with no parents and no observed trait has the prior
\* 0.96 / 0.03 / 0.01 as posterior gene distribution, whatever the evidence
\* about the other people.
C4_FounderPrior ==
    pc = "done" =>
      \A k \in names :
         (NoParents(k) /\ people[k].trait = "None") =>
            /\ BMulSmall(probabilities[k].gene[0].num, 10000)
                 = BMulSmall(probabilities[k].gene[0].den, 9600)
            /\ BMulSmall(probabilities[k].gene[1].num, 10000)
                 = BMulSmall(probabilities[k].gene[1].den, 300)
            /\ BMulSmall(probabilities[k].gene[2].num, 10000)
                 = BMulSmall(probabilities[k].gene[2].den, 100)

\* C4 amended: a person with no parents, no observed trait and no descendant
\* whose trait is observed has the prior 0.96 / 0.03 / 0.01 as posterior gene
\* distribution, whatever the evidence about the remaining people.
C4_FounderPriorNoObservedDescendant ==
    pc = "done" =>
      \A k \in names :
         (NoParents(k) /\ people[k].trait = "None" /\ Descendants(k) \cap Known = {}) =>
            /\ BMulSmall(probabilities[k].gene[0].num, 10000)
                 = BMulSmall(probabilities[k].gene[0].den, 9600)
            /\ BMulSmall(probabilities[k].gene[1].num, 10000)
                 = BMulSmall(probabilities[k].gene[1].den, 300)
            /\ BMulSmall(probabilities[k].gene[2].num, 10000)
                 = BMulSmall(probabilities[k].gene[2].den, 100)

C4_Witness ==
    /\ pc = "done"
    /\ \E k \in names :
          /\ NoParents(k) /\ people[k].trait = "None"
          /\ Descendants(k) # {} /\ Descendants(k) \cap Known = {}
          /\ Known # {}

\* C5: joint_probability is the product over all people of the person's gene
\* factor times the trait factor, in whatever order the people are visited;
\* two founders with no copy and no trait give 0.96 * 0.96 * 0.99 * 0.99.
C5_JointIsProduct ==
    pc = "genes" =>
      LET p == joint_probability(people, one_gene, two_genes, have_trait)
      IN /\ p = RefProduct(names, one_gene, two_genes, have_trait)
         /\ \A keys \in Perms(names) :
               joint_loop(people, keys, one_gene, two_genes, have_trait, Big(1)) = p
         /\ ( /\ Cardinality(names) = 2
              /\ \A k \in names : NoParents(k)
              /\ one_gene = {} /\ two_genes = {} /\ have_trait = {} )
            => p = <<0, 160, 260, 903>>

C5_Witness ==
    /\ pc = "genes" /\ Cardinality(names) = 2
    /\ one_gene = {} /\ two_genes = {} /\ have_trait = {} /\ Known = {}

\* C6: for a person with two parents the gene factor is (1-mom)(1-dad),
\* mom(1-dad) + (1-mom)dad, mom*dad with mom, dad = 0.01, 0.5, 0.99 for a
\* parent with 0, 1, 2 copies; the three sum to 1 for each of the 9 parent
\* combinations, and are 0.9801, 0.0198, 0.0001 when both parents have none.
C6_Pass(g) == CASE g = 0 -> 1 [] g = 1 -> 50 [] g = 2 -> 99

C6_ChildGeneFactor ==
    pc = "genes" =>
      \A k \in names :
         ~NoParents(k) =>
            LET gm == gene_of(people[k].mother, one_gene, two_genes)
                gf == gene_of(people[k].father, one_gene, two_genes)
                mom == C6_Pass(gm)
                dad == C6_Pass(gf)
                f(g) == p_gene(people, k, g, one_gene, two_genes)
            IN /\ f(0) = (100 - mom) * (100 - dad)
               /\ f(1) = mom * (100 - dad) + (100 - mom) * dad
               /\ f(2) = mom * dad
               /\ f(0) + f(1) + f(2) = 10000
               /\ (gm = 0 /\ gf = 0) => (f(0) = 9801 /\ f(1) = 198 /\ f(2) = 1)

C6_Witness ==
    /\ pc = "genes"
    /\ \E k \in names :
          /\ ~NoParents(k)
          /\ gene_of(people[k].mother, one_gene, two_genes) = 2
          /\ gene_of(people[k].father, one_gene, two_genes) = 1

\* C7: the bucket opposite to an observed trait never receives weight, and
\* after normalize the observed value has probability 1 and the other 0.
C7_ObservedTraitCertain ==
    \A k \in Known :
       LET obs == people[k].trait = "True"
       IN /\ pc \in {"trait", "genes"} => probabilities[k].trait[~obs] = <<>>
          /\ pc = "done" =>
               /\ probabilities[k].trait[~obs].num = <<>>
               /\ probabilities[k].trait[obs].den # <<>>
               /\ probabilities[k].trait[obs].num = probabilities[k].trait[obs].den

C7_Witness ==
    /\ pc = "done" /\ Trio
    /\ \E k, j \in names : people[k].trait = "True" /\ people[j].trait = "False"

\* C8: each call of update adds p to exactly one gene bucket and exactly one
\* trait bucket of every person and leaves the other buckets unchanged, so
\* that every person's gene buckets and trait buckets sum to the sum of the
\* p accumulated so far.
C8_UpdateFrame ==
    [][ncalls' = ncalls + 1 =>
         LET p == joint_probability(people, one_gene, two_genes, have_trait)
         IN /\ total' = BAdd(total, p)
            /\ \A k \in names :
                 /\ Cardinality({g \in 0..2 : probabilities'[k].gene[g]
                                      = BAdd(probabilities[k].gene[g], p)}) = 1
                 /\ Cardinality({g \in 0..2 : probabilities'[k].gene[g]
                                      = probabilities[k].gene[g]}) = 2
                 /\ Cardinality({t \in BOOLEAN : probabilities'[k].trait[t]
                                      = BAdd(probabilities[k].trait[t], p)}) = 1
                 /\ Cardinality({t \in BOOLEAN : probabilities'[k].trait[t]
                                      = probabilities[k].trait[t]}) = 1
                 /\ gene_count(probabilities', k) = total'
                 /\ trait_count(probabilities', k) = total']_vars

C8_Witness == pc = "genes" /\ ncalls >= 2 /\ Trio /\ one_gene # {} /\ two_genes # {}

\* C9: the final distributions are a function of the population and the
\* evidence only: whatever the iteration order, they are the posterior
\* computed from the set of consistent configurations.
C9_OrderIndependent == pc = "done" => probabilities = Posterior

C9_Witness == pc = "done" /\ Trio /\ order = <<3, 1, 2>> /\ Known # {}

\* C10: at least one configuration is accumulated, every accumulated joint
\* probability is strictly positive, every total is strictly positive when
\* normalize runs, and normalize fails only for a person without weight.
C10_NoZeroDivision ==
    /\ pc # "error"
    /\ pc = "genes" =>
         joint_probability(people, one_gene, two_genes, have_trait) # <<>>
    /\ AtNormalize =>
         /\ ncalls >= 1
         /\ \A k \in names :
               gene_count(probabilities, k) # <<>> /\ trait_count(probabilities, k) # <<>>
    /\ (pc \in {"trait", "genes"} /\ normalize_fails(probabilities)) =>
         \E k \in names :
            \/ \A g \in 0..2 : probabilities[k].gene[g] = <<>>
            \/ \A t \in BOOLEAN : probabilities[k].trait[t] = <<>>

C10_Witness == AtNormalize /\ Trio /\ Known = names

====
